---- MODULE Spec2Model ----
(***************************************************************************)
(* Model of tools/helper/helper.py: _predict_next_video_views (the         *)
(* log-normal prediction-interval estimator) and the three functions that  *)
(* page through the YouTube API, _fetch_comments, _search_youtube_channels *)
(* and _fetch_video_statistics, each with a call frame of its own and a    *)
(* specification of its own; the API's answers are chosen freely.          *)
(*                                                                         *)
(* Numbers.  Probabilities, the confidence level, alpha and the fitted     *)
(* shape are fixed-point integers counting thousandths (ONE = 1.0).  A     *)
(* Python float that the function returns or keeps in `scale` is a record  *)
(*   [k |-> "nan"], [k |-> "ninf"], [k |-> "inf"]   NaN, -inf, +inf        *)
(*   [k |-> "lin", v |-> n]    the number n / 1000                         *)
(*   [k |-> "exp", v |-> n]    the positive number e^(n / 1000)            *)
(* so that the log-normal quantile scale * e^(shape * z) is computed in    *)
(* the exponent, without a table of the exponential function.              *)
(***************************************************************************)
EXTENDS Integers, Sequences, FiniteSets, TLC

\* ------------------------------------------------------------------ bounds

\* Longest series of historical views the single-call specification draws.
MaxLen == 3
\* Longest series drawn by the repeated-call and the concurrent specification.
SmallLen == 2

\* 1.0 in thousandths.
ONE == 1000

\* The two invocation slots (call frames) of the model.
Inv == {1, 2}

\* View counts a caller may pass: a negative, zero, and three positive ones.
ViewValues == {-7, 0, 500, 1000, 4000}
SmallViewValues == {0, 1000, 4000}

\* Confidence levels a caller may pass (thousandths), in and out of (0, 1).
ConfLevels == {-500, 0, 800, 900, 990, 1000, 1500}
SmallConfLevels == {900}

\* The three documented interval types, and one that is none of them.
IntervalTypes == {"lower", "upper", "two-sided"}
AllTypes == IntervalTypes \cup {"median"}

\* ------------------------------------------------------------------ floats

NaN == [k |-> "nan", v |-> 0]
NegInf == [k |-> "ninf", v |-> 0]
PosInf == [k |-> "inf", v |-> 0]
Lin(n) == [k |-> "lin", v |-> n]
Exp(n) == [k |-> "exp", v |-> n]

IsFinite(x) == x.k \in {"lin", "exp"}
IsNaN(x) == x.k = "nan"

\* x <= y on floats: false when either is NaN.  A "lin" and an "exp" value are
\* only compared when the "lin" one is <= 0 (the exponential is positive).
Leq(x, y) ==
    CASE x.k = "nan" \/ y.k = "nan" -> FALSE
      [] x.k = "ninf" -> TRUE
      [] y.k = "inf" -> TRUE
      [] x.k = "inf" -> FALSE
      [] y.k = "ninf" -> FALSE
      [] x.k = "lin" /\ y.k = "lin" -> x.v <= y.v
      [] x.k = "exp" /\ y.k = "exp" -> x.v <= y.v
      [] x.k = "lin" /\ y.k = "exp" /\ x.v <= 0 -> TRUE
      [] x.k = "exp" /\ y.k = "lin" /\ y.v <= 0 -> FALSE

\* ------------------------------------------------------- library primitives

\* np.log at the positive view counts of ViewValues, in thousandths.
NpLog(x) ==
    CASE x = 500 -> 6215
      [] x = 1000 -> 6908
      [] x = 2000 -> 7601
      [] x = 4000 -> 8294
      [] x = 8000 -> 8987

RECURSIVE SumSeq(_)
SumSeq(s) == IF s = <<>> THEN 0 ELSE Head(s) + SumSeq(Tail(s))

\* np.sqrt on fixed-point integers: the integer square root.
RECURSIVE ISqrt(_)
ISqrt(n) ==
    IF n < 2 THEN n
    ELSE LET s == 2 * ISqrt(n \div 4)
         IN  IF (s + 1) * (s + 1) > n THEN s ELSE s + 1

\* The standard normal quantile (scipy.special.ndtri) in thousandths, at the
\* probabilities the model's confidence levels lead to; 0 < p < ONE.
NormPpfLow(p) ==
    CASE p = 5 -> -2576
      [] p = 10 -> -2326
      [] p = 50 -> -1645
      [] p = 100 -> -1282
      [] p = 200 -> -842
      [] p = 250 -> -674
      [] p = 500 -> 0

NormPpf(p) == IF p <= 500 THEN NormPpfLow(p) ELSE 0 - NormPpfLow(ONE - p)

\* The shapes a build of the library can return for a series with no spread in
\* log space: the closed-form value 0, or the small positive value its numerical
\* optimiser stops at.  Which one is fixed by the build, not by the call.
DegenerateShapes == {0, 1}

\* stats.lognorm.fit(views, floc=0): the maximum-likelihood fit with the
\* location fixed: scale = e^mean(log x), shape = sqrt(mean((log x - log scale)^2)).
\* `degenerate` is the build's shape for a series with no spread.  Data that
\* is empty or not above the location is an error of the library (err).
LognormFit(data, floc, degenerate) ==
    IF Len(data) = 0 \/ \E j \in 1..Len(data) : data[j] <= floc
    THEN [err |-> TRUE, shape |-> 0, loc |-> floc, scale |-> NaN]
    ELSE LET n == Len(data)
             lndata == [j \in 1..n |-> NpLog(data[j] - floc)]
             mu == SumSeq(lndata) \div n
             sq == [j \in 1..n |-> (lndata[j] - mu) * (lndata[j] - mu)]
             s == ISqrt(SumSeq(sq) \div n)
         IN  [err |-> FALSE, shape |-> IF s = 0 THEN degenerate ELSE s,
              loc |-> floc, scale |-> Exp(mu)]

\* stats.lognorm.ppf(q, s, loc=loc, scale=scale) with loc = 0: NaN when the
\* shape is not positive or q is outside [0, 1], the ends of the support at
\* q = 0 and q = 1, and scale * e^(s * ndtri(q)) in between.
LognormPpf(q, s, loc, scale) ==
    IF ~(s > 0) \/ q < 0 \/ q > ONE THEN NaN
    ELSE IF q = 0 THEN Lin(loc)
    ELSE IF q = ONE THEN PosInf
    ELSE Exp(scale.v + (s * NormPpf(q)) \div ONE)

\* ------------------------------------------------------------- the function

\* `not historical_views` (line 134).
IsEmptyList(hv) == Len(hv) = 0

\* np.array(historical_views, dtype=float) (line 136): every int becomes the
\* float of the same value (exact for view counts), in a new array.
NpArray(hv) == [j \in 1..Len(hv) |-> hv[j]]

\* Mutant of AnyNonPositive: the comparison is < instead of <=.
AnyNegative(a) == \E j \in 1..Len(a) : a[j] < 0

\* np.any(views <= 0) (line 137).
AnyNonPositive(a) == \E j \in 1..Len(a) : a[j] <= 0

\* Mutant of AlphaOf: the confidence level itself is taken for alpha.
AlphaIsLevel(c) == c

\* alpha = 1.0 - confidence_level (line 143).
AlphaOf(c) == ONE - c

\* Mutant of HalfOf: the two tails are swapped (1 - alpha / 2 where alpha / 2
\* is meant, and so alpha / 2 where 1 - alpha / 2 is).
OtherHalfOf(a) == ONE - a \div 2

\* alpha / 2 (lines 157, 158); every alpha of the model is an even number of
\* thousandths, so the division is exact.
HalfOf(a) == a \div 2

\* Mutant of FrameOf: the locals live in one place shared by all invocations.
SharedFrame(i) == 1

\* The call frame that holds invocation i's local variables: each invocation
\* of a Python function has locals of its own.
FrameOf(i) == i

\* What a call has returned: nothing yet, None, or a pair of floats.
NoReturn == [k |-> "unset", lo |-> NaN, hi |-> NaN]
ReturnNone == [k |-> "none", lo |-> NaN, hi |-> NaN]
ReturnPair(l, u) == [k |-> "pair", lo |-> l, hi |-> u]

\* The outcome of a call: what it returned and what it raised.
Outcome(r, e) == [ret |-> r, exc |-> e]

\* The branches of lines 145-159 on the fitted distribution r.
Interval(r, c, a, t) ==
    CASE t = "lower" -> ReturnPair(LognormPpf(a, r.shape, r.loc, r.scale), PosInf)
      [] t = "upper" -> ReturnPair(NegInf, LognormPpf(c, r.shape, r.loc, r.scale))
      [] t = "two-sided" ->
            ReturnPair(LognormPpf(HalfOf(a), r.shape, r.loc, r.scale),
                       LognormPpf(ONE - HalfOf(a), r.shape, r.loc, r.scale))
      [] OTHER -> ReturnNone

\* _predict_next_video_views(hv, c, t) run from its first line to its last on
\* its own, with a library build whose degenerate shape is `degenerate`.
PredictNextVideoViews(hv, c, t, degenerate) ==
    IF IsEmptyList(hv) THEN Outcome(NoReturn, "ValueError")
    ELSE IF AnyNonPositive(NpArray(hv)) THEN Outcome(NoReturn, "ValueError")
    ELSE LET r == LognormFit(NpArray(hv), 0, degenerate)
         IN  IF r.err THEN Outcome(NoReturn, "FitDataError")
             ELSE Outcome(Interval(r, c, AlphaOf(c), t), "none")

VARIABLES
    lib,                \* the library build's shape for a degenerate fit
    historical_views,   \* [Inv -> the caller's list]     argument
    confidence_level,   \* [Inv -> thousandths]           argument
    interval_type,      \* [Inv -> string]                argument
    pc,                 \* [Inv -> position in the function]
    views,              \* [frame -> array]               local (line 136)
    shape,              \* [frame -> thousandths]         local (line 141)
    loc,                \* [frame -> thousandths]         local (line 141)
    scale,              \* [frame -> float]               local (line 141)
    alpha,              \* [frame -> thousandths]         local (line 143)
    lower_q,            \* [frame -> float]               local (line 157)
    ret,                \* [Inv -> what the call returned]
    exc,                \* [Inv -> the exception the call raised, or "none"]
    fit_calls,          \* [Inv -> number of calls of lognorm.fit]
    ppf_calls,          \* [Inv -> the probabilities passed to lognorm.ppf]
    mem,                \* a finished call (inputs, outcome) the caller remembers
    fetch_comments,             \* the frame of a call of _fetch_comments
    search_youtube_channels,    \* the frame of a call of _search_youtube_channels
    fetch_video_statistics      \* the frame of a call of _fetch_video_statistics

\* The frames of the three functions that page through the YouTube API.
web == <<fetch_comments, search_youtube_channels, fetch_video_statistics>>

vars == <<lib, historical_views, confidence_level, interval_type, pc, views,
          shape, loc, scale, alpha, lower_q, ret, exc, fit_calls, ppf_calls, mem, web>>

args == <<historical_views, confidence_level, interval_type>>
locals == <<views, shape, loc, scale, alpha, lower_q>>

NoMem ==
    [k |-> "none", hv |-> <<>>, cl |-> 0, it |-> "", ret |-> NoReturn, exc |-> "none",
     gap |-> FALSE]

RECURSIVE SeqsUpTo(_, _)
SeqsUpTo(S, n) ==
    IF n = 0 THEN {<<>>}
    ELSE LET shorter == SeqsUpTo(S, n - 1)
         IN  shorter \cup {Append(s, x) : s \in {t \in shorter : Len(t) = n - 1}, x \in S}

Series == SeqsUpTo(ViewValues, MaxLen)
SmallSeries == SeqsUpTo(SmallViewValues, SmallLen)

\* ------------------------------------------------ frames of the API functions

\* None, where the code holds a page token or a text.
NoneToken == "None"

NoRequest == [maxResults |-> 0, pageToken |-> NoneToken]
NoResponse == [k |-> "none", items |-> <<>>, nextPageToken |-> NoneToken]

\* _fetch_comments is not being called.
IdleComments ==
    [pc |-> "idle", max_results |-> 0, comments |-> <<>>, next_page_token |-> NoneToken,
     batch_size |-> 0, request |-> NoRequest, response |-> NoResponse,
     ret |-> <<>>, exc |-> "none"]

\* The one entry of the list that line 495 returns.
ErrorEntry == [k |-> "error", channelId |-> NoneToken, subscriberCount |-> 0, bestVideoViews |-> 0]

\* _search_youtube_channels is not being called.  `looked` and `raised` are
\* history: the subscriber count of the latest lookup of each channel, the
\* channels a lookup found below the threshold, whether an API call raised.
IdleChannels ==
    [pc |-> "idle", max_results |-> 0, min_subscribers |-> 0, items |-> <<>>, idx |-> 0,
     channel_id |-> NoneToken, view_count |-> 0, channel_videos |-> <<>>, ret |-> <<>>,
     looked |-> <<>>, rejected |-> {}, raised |-> FALSE]

\* _fetch_video_statistics is not being called.  `errors` is history: the
\* number of videos whose processing raised.
IdleVideos ==
    [pc |-> "idle", max_results |-> 0, months |-> 0, min_duration_minutes |-> 0,
     cutoff_date |-> 0, items |-> <<>>, idx |-> 0, video_stats |-> <<>>,
     ret |-> <<>>, exc |-> "none", errors |-> 0]

\* None of the three API functions is being called.
NoWebCall ==
    /\ fetch_comments = IdleComments
    /\ search_youtube_channels = IdleChannels
    /\ fetch_video_statistics = IdleVideos

\* The state of a frame before the function has assigned its locals.
FreshLocals ==
    /\ views = [f \in Inv |-> <<>>]
    /\ shape = [f \in Inv |-> 0]
    /\ loc = [f \in Inv |-> 0]
    /\ scale = [f \in Inv |-> NaN]
    /\ alpha = [f \in Inv |-> 0]
    /\ lower_q = [f \in Inv |-> NaN]

\* The state in which the invocations of A are about to start, each with a
\* series of S, a confidence level of C and an interval type of T.
Start(A, S, C, T) ==
    /\ lib \in DegenerateShapes
    /\ historical_views \in {[i \in Inv |-> IF i \in A THEN g[i] ELSE <<>>] : g \in [A -> S]}
    /\ confidence_level \in {[i \in Inv |-> IF i \in A THEN g[i] ELSE 0] : g \in [A -> C]}
    /\ interval_type \in {[i \in Inv |-> IF i \in A THEN g[i] ELSE ""] : g \in [A -> T]}
    /\ pc = [i \in Inv |-> IF i \in A THEN "check_empty" ELSE "idle"]
    /\ FreshLocals
    /\ ret = [i \in Inv |-> NoReturn]
    /\ exc = [i \in Inv |-> "none"]
    /\ fit_calls = [i \in Inv |-> 0]
    /\ ppf_calls = [i \in Inv |-> <<>>]
    /\ mem = NoMem

\* One call, invocation 1, with any inputs; invocation 2 is never made.
Init == Start({1}, Series, ConfLevels, AllTypes) /\ NoWebCall

\* raise e: the call ends without a return value.
Raise(i, e) ==
    /\ pc' = [pc EXCEPT ![i] = "raised"]
    /\ exc' = [exc EXCEPT ![i] = e]
    /\ UNCHANGED ret

Goto(i, l) ==
    /\ pc' = [pc EXCEPT ![i] = l]
    /\ UNCHANGED <<ret, exc>>

Return(i, r) ==
    /\ pc' = [pc EXCEPT ![i] = "returned"]
    /\ ret' = [ret EXCEPT ![i] = r]
    /\ UNCHANGED exc

\* Lines 134-135: if not historical_views: raise ValueError.
CheckEmpty(i) ==
    /\ pc[i] = "check_empty"
    /\ IF IsEmptyList(historical_views[i]) THEN Raise(i, "ValueError") ELSE Goto(i, "to_array")
    /\ UNCHANGED <<web, lib, args, locals, fit_calls, ppf_calls, mem>>

\* Line 136: views = np.array(historical_views, dtype=float).
ToArray(i) ==
    /\ pc[i] = "to_array"
    /\ views' = [views EXCEPT ![FrameOf(i)] = NpArray(historical_views[i])]
    /\ Goto(i, "check_positive")
    /\ UNCHANGED <<web, lib, args, shape, loc, scale, alpha, lower_q, fit_calls, ppf_calls, mem>>

\* Mutant of CheckPositive: the confidence level is validated as well.
CheckPositiveAndLevel(i) ==
    /\ pc[i] = "check_positive"
    /\ IF \/ AnyNonPositive(views[FrameOf(i)])
          \/ ~(0 < confidence_level[i] /\ confidence_level[i] < ONE)
       THEN Raise(i, "ValueError")
       ELSE Goto(i, "fit")
    /\ UNCHANGED <<web, lib, args, locals, fit_calls, ppf_calls, mem>>

\* Lines 137-138: if np.any(views <= 0): raise ValueError.
CheckPositive(i) ==
    /\ pc[i] = "check_positive"
    /\ IF AnyNonPositive(views[FrameOf(i)]) THEN Raise(i, "ValueError") ELSE Goto(i, "fit")
    /\ UNCHANGED <<web, lib, args, locals, fit_calls, ppf_calls, mem>>

\* Mutant of Fit: the fit is made before the array has been checked.
FitBeforeCheck(i) ==
    /\ pc[i] = "check_positive"
    /\ fit_calls[i] = 0
    /\ LET r == LognormFit(views[FrameOf(i)], 0, lib)
       IN  IF r.err
           THEN Raise(i, "FitDataError") /\ UNCHANGED <<shape, loc, scale>>
           ELSE /\ shape' = [shape EXCEPT ![FrameOf(i)] = r.shape]
                /\ loc' = [loc EXCEPT ![FrameOf(i)] = r.loc]
                /\ scale' = [scale EXCEPT ![FrameOf(i)] = r.scale]
                /\ Goto(i, "check_positive")
    /\ fit_calls' = [fit_calls EXCEPT ![i] = @ + 1]
    /\ UNCHANGED <<web, lib, args, views, alpha, lower_q, ppf_calls, mem>>

\* Mutant of Fit: the fit starts from a random point, and the shape it stops
\* at varies from call to call.
FitRandom(i) ==
    /\ pc[i] = "fit"
    /\ LET r == LognormFit(views[FrameOf(i)], 0, lib)
       IN  IF r.err
           THEN Raise(i, "FitDataError") /\ UNCHANGED <<shape, loc, scale>>
           ELSE /\ \E d \in {0, 1} : shape' = [shape EXCEPT ![FrameOf(i)] = r.shape + d]
                /\ loc' = [loc EXCEPT ![FrameOf(i)] = r.loc]
                /\ scale' = [scale EXCEPT ![FrameOf(i)] = r.scale]
                /\ Goto(i, "alpha")
    /\ fit_calls' = [fit_calls EXCEPT ![i] = @ + 1]
    /\ UNCHANGED <<web, lib, args, views, alpha, lower_q, ppf_calls, mem>>

\* Line 141: shape, loc, scale = stats.lognorm.fit(views, floc=0).
Fit(i) ==
    /\ pc[i] = "fit"
    /\ LET r == LognormFit(views[FrameOf(i)], 0, lib)
       IN  IF r.err
           THEN Raise(i, "FitDataError") /\ UNCHANGED <<shape, loc, scale>>
           ELSE /\ shape' = [shape EXCEPT ![FrameOf(i)] = r.shape]
                /\ loc' = [loc EXCEPT ![FrameOf(i)] = r.loc]
                /\ scale' = [scale EXCEPT ![FrameOf(i)] = r.scale]
                /\ Goto(i, "alpha")
    /\ fit_calls' = [fit_calls EXCEPT ![i] = @ + 1]
    /\ UNCHANGED <<web, lib, args, views, alpha, lower_q, ppf_calls, mem>>

\* Line 143: alpha = 1.0 - confidence_level.
Alpha(i) ==
    /\ pc[i] = "alpha"
    /\ alpha' = [alpha EXCEPT ![FrameOf(i)] = AlphaOf(confidence_level[i])]
    /\ Goto(i, "branch")
    /\ UNCHANGED <<web, lib, args, views, shape, loc, scale, lower_q, fit_calls, ppf_calls, mem>>

\* The quantile of the fitted distribution as frame f holds it.
Quantile(f, q) == LognormPpf(q, shape[f], loc[f], scale[f])

\* Mutant of BranchLower: the quantile is taken at the confidence level itself.
BranchLowerAtLevel(i) ==
    /\ pc[i] = "branch"
    /\ interval_type[i] = "lower"
    /\ LET f == FrameOf(i)
           q == confidence_level[i]
       IN  /\ ppf_calls' = [ppf_calls EXCEPT ![i] = Append(@, q)]
           /\ Return(i, ReturnPair(Quantile(f, q), PosInf))
    /\ UNCHANGED <<web, lib, args, locals, fit_calls, mem>>

\* Mutant of BranchLower: the upper bound is the mirrored quantile, not +inf.
BranchLowerBounded(i) ==
    /\ pc[i] = "branch"
    /\ interval_type[i] = "lower"
    /\ LET f == FrameOf(i)
           q == alpha[f]
       IN  /\ ppf_calls' = [ppf_calls EXCEPT ![i] = Append(@, q)]
           /\ Return(i, ReturnPair(Quantile(f, q), Quantile(f, ONE - q)))
    /\ UNCHANGED <<web, lib, args, locals, fit_calls, mem>>

\* Lines 145-148: interval_type == "lower".
BranchLower(i) ==
    /\ pc[i] = "branch"
    /\ interval_type[i] = "lower"
    /\ LET f == FrameOf(i)
           q == alpha[f]
       IN  /\ ppf_calls' = [ppf_calls EXCEPT ![i] = Append(@, q)]
           /\ Return(i, ReturnPair(Quantile(f, q), PosInf))
    /\ UNCHANGED <<web, lib, args, locals, fit_calls, mem>>

\* Mutant of BranchUpper: the quantile is taken at alpha, as in the lower branch.
BranchUpperAtAlpha(i) ==
    /\ pc[i] = "branch"
    /\ interval_type[i] = "upper"
    /\ LET f == FrameOf(i)
           q == alpha[f]
       IN  /\ ppf_calls' = [ppf_calls EXCEPT ![i] = Append(@, q)]
           /\ Return(i, ReturnPair(NegInf, Quantile(f, q)))
    /\ UNCHANGED <<web, lib, args, locals, fit_calls, mem>>

\* Lines 150-153: interval_type == "upper".
BranchUpper(i) ==
    /\ pc[i] = "branch"
    /\ interval_type[i] = "upper"
    /\ LET f == FrameOf(i)
           q == confidence_level[i]
       IN  /\ ppf_calls' = [ppf_calls EXCEPT ![i] = Append(@, q)]
           /\ Return(i, ReturnPair(NegInf, Quantile(f, q)))
    /\ UNCHANGED <<web, lib, args, locals, fit_calls, mem>>

\* Lines 155-157: interval_type == "two-sided", lower_q = ppf(alpha / 2).
TwoSidedLower(i) ==
    /\ pc[i] = "branch"
    /\ interval_type[i] = "two-sided"
    /\ LET f == FrameOf(i)
           q == HalfOf(alpha[f])
       IN  /\ ppf_calls' = [ppf_calls EXCEPT ![i] = Append(@, q)]
           /\ lower_q' = [lower_q EXCEPT ![f] = Quantile(f, q)]
    /\ Goto(i, "two_sided_upper")
    /\ UNCHANGED <<web, lib, args, views, shape, loc, scale, alpha, fit_calls, mem>>

\* Mutant of TwoSidedUpper: the upper bound is taken in the lower tail too.
TwoSidedUpperSameTail(i) ==
    /\ pc[i] = "two_sided_upper"
    /\ LET f == FrameOf(i)
           q == HalfOf(alpha[f])
       IN  /\ ppf_calls' = [ppf_calls EXCEPT ![i] = Append(@, q)]
           /\ Return(i, ReturnPair(lower_q[f], Quantile(f, q)))
    /\ UNCHANGED <<web, lib, args, locals, fit_calls, mem>>

\* Lines 158-159: upper_q = ppf(1 - alpha / 2); return lower_q, upper_q.
TwoSidedUpper(i) ==
    /\ pc[i] = "two_sided_upper"
    /\ LET f == FrameOf(i)
           q == ONE - HalfOf(alpha[f])
       IN  /\ ppf_calls' = [ppf_calls EXCEPT ![i] = Append(@, q)]
           /\ Return(i, ReturnPair(lower_q[f], Quantile(f, q)))
    /\ UNCHANGED <<web, lib, args, locals, fit_calls, mem>>

\* Mutant of FallThrough: an unknown interval type is rejected.
FallThroughRaises(i) ==
    /\ pc[i] = "branch"
    /\ interval_type[i] \notin IntervalTypes
    /\ Raise(i, "ValueError")
    /\ UNCHANGED <<web, lib, args, locals, fit_calls, ppf_calls, mem>>

\* After line 159: no branch matched, the function ends and returns None.
FallThrough(i) ==
    /\ pc[i] = "branch"
    /\ interval_type[i] \notin IntervalTypes
    /\ Return(i, ReturnNone)
    /\ UNCHANGED <<web, lib, args, locals, fit_calls, ppf_calls, mem>>

Step(i) ==
    \/ CheckEmpty(i)
    \/ ToArray(i)
    \/ CheckPositive(i)
    \/ Fit(i)
    \/ Alpha(i)
    \/ BranchLower(i)
    \/ BranchUpper(i)
    \/ TwoSidedLower(i)
    \/ TwoSidedUpper(i)
    \/ FallThrough(i)

Next == \E i \in Inv : Step(i)

Spec == Init /\ [][Next]_vars

Done(i) == pc[i] \in {"returned", "raised"}

\* ------------------------------------------------------------ repeated calls

\* The finished call of invocation i: its inputs and its outcome (gap: whether
\* another call has been made since).
Finished(i) ==
    [k |-> "call", hv |-> historical_views[i], cl |-> confidence_level[i],
     it |-> interval_type[i], ret |-> ret[i], exc |-> exc[i], gap |-> FALSE]

\* The caller calls the function again (as the tool wrapper does, line 839),
\* after it has or has not noted the finished call: new arguments, a new frame.
Call(i) ==
    /\ Done(i)
    /\ mem' \in (IF mem = NoMem THEN {mem, Finished(i)} ELSE {[mem EXCEPT !.gap = TRUE]})
    /\ \E hv \in SmallSeries : historical_views' = [historical_views EXCEPT ![i] = hv]
    /\ \E c \in SmallConfLevels : confidence_level' = [confidence_level EXCEPT ![i] = c]
    /\ \E t \in AllTypes : interval_type' = [interval_type EXCEPT ![i] = t]
    /\ pc' = [pc EXCEPT ![i] = "check_empty"]
    /\ views' = [views EXCEPT ![FrameOf(i)] = <<>>]
    /\ shape' = [shape EXCEPT ![FrameOf(i)] = 0]
    /\ loc' = [loc EXCEPT ![FrameOf(i)] = 0]
    /\ scale' = [scale EXCEPT ![FrameOf(i)] = NaN]
    /\ alpha' = [alpha EXCEPT ![FrameOf(i)] = 0]
    /\ lower_q' = [lower_q EXCEPT ![FrameOf(i)] = NaN]
    /\ ret' = [ret EXCEPT ![i] = NoReturn]
    /\ exc' = [exc EXCEPT ![i] = "none"]
    /\ fit_calls' = [fit_calls EXCEPT ![i] = 0]
    /\ ppf_calls' = [ppf_calls EXCEPT ![i] = <<>>]
    /\ UNCHANGED <<web, lib>>

InitSeq == Start({1}, SmallSeries, SmallConfLevels, AllTypes) /\ NoWebCall

NextSeq == Step(1) \/ Call(1)

\* One caller that calls the function again and again.
SpecSeq == InitSeq /\ [][NextSeq]_vars

\* ---------------------------------------------------------- concurrent calls

InitConc == Start(Inv, SmallSeries, SmallConfLevels, AllTypes) /\ NoWebCall

\* Two invocations, started together, whose steps interleave in any order.
SpecConc == InitConc /\ [][Next]_vars

\* ----------------------------------------------------------- _fetch_comments

\* Most comments a caller of the model asks for, short of more than a page.
MaxWanted == 3

\* Line 361: the largest page the function asks for.
PageLimit == 100

\* The estimator's variables, which no API function touches.
estimator == <<lib, args, pc, locals, ret, exc, fit_calls, ppf_calls, mem>>

Min(a, b) == IF a <= b THEN a ELSE b

\* max_results as callers pass it: negative, zero, a few, more than one page.
CommentMaxResults == (-1 .. MaxWanted) \cup {PageLimit + MaxWanted - 1}

\* Page tokens the API hands out.
Tokens == {"t1", "t2"}

\* Items of a commentThreads page: a comment, an item without an id, an item
\* whose snippet has no textDisplay.
GoodItem == [id |-> "id", text |-> "text"]
NoIdItem == [id |-> NoneToken, text |-> "text"]
NoTextItem == [id |-> "id", text |-> NoneToken]

\* The pages the API may return to a request for at most n items: empty,
\* one item, one short of full or full; all comments, all without text, or
\* the first item without an id.
Pages(n) ==
    LET sizes == {0, 1, n - 1, n} \cap (0 .. n)
    IN  UNION {{[j \in 1..k |-> GoodItem],
                [j \in 1..k |-> NoTextItem],
                [j \in 1..k |-> IF j = 1 THEN NoIdItem ELSE GoodItem]} : k \in sizes}

\* Mutant of BatchSize: every request asks for a full page.
BatchSizeFull(max_results, n) == PageLimit

\* Line 361: batch_size = min(100, max_results - len(comments)).
BatchSize(max_results, n) == Min(PageLimit, max_results - n)

\* Lines 378-379: if not comment_id or text is None: continue.
Skipped(item) == item.id = NoneToken \/ item.text = NoneToken

Kept(item) == ~Skipped(item)

\* Lines 371-387: the comments the for loop appends for a page, in page order.
Accepted(items) == SelectSeq(items, Kept)

\* A call of _fetch_comments is about to run, with any max_results.
StartComments ==
    fetch_comments \in {[IdleComments EXCEPT !.pc = "while", !.max_results = n] :
                          n \in CommentMaxResults}

\* Lines 359-368 and 394: the loop test; either the next request is built
\* or the loop ends and the function returns comments.
FetchCommentsWhile ==
    /\ fetch_comments.pc = "while"
    /\ LET fc == fetch_comments
           b == BatchSize(fc.max_results, Len(fc.comments))
       IN  IF Len(fc.comments) < fc.max_results
           THEN fetch_comments' =
                    [fc EXCEPT !.pc = "execute", !.batch_size = b,
                               !.request = [maxResults |-> b, pageToken |-> fc.next_page_token]]
           ELSE fetch_comments' = [fc EXCEPT !.pc = "returned", !.ret = fc.comments]
    /\ UNCHANGED <<estimator, search_youtube_channels, fetch_video_statistics>>

\* Line 369: response = request.execute(); the API answers with a page of at
\* most maxResults items and, possibly, a nextPageToken.
FetchCommentsExecute ==
    /\ fetch_comments.pc = "execute"
    /\ \E items \in Pages(fetch_comments.request.maxResults), t \in Tokens \cup {NoneToken} :
           fetch_comments' =
               [fetch_comments EXCEPT !.pc = "for",
                    !.response = [k |-> "ok", items |-> items, nextPageToken |-> t]]
    /\ UNCHANGED <<estimator, search_youtube_channels, fetch_video_statistics>>

\* Lines 369, 396-397: request.execute() raises HttpError, which the function
\* raises again as Exception.
FetchCommentsHttpError ==
    /\ fetch_comments.pc = "execute"
    /\ fetch_comments' = [fetch_comments EXCEPT !.pc = "raised", !.exc = "Exception"]
    /\ UNCHANGED <<estimator, search_youtube_channels, fetch_video_statistics>>

\* Lines 371-387: the for loop over the page's items.
FetchCommentsFor ==
    /\ fetch_comments.pc = "for"
    /\ fetch_comments' =
           [fetch_comments EXCEPT !.pc = "token",
                !.comments = @ \o Accepted(fetch_comments.response.items)]
    /\ UNCHANGED <<estimator, search_youtube_channels, fetch_video_statistics>>

\* Mutant of FetchCommentsToken: the loop goes on when the page has no token.
FetchCommentsTokenNoBreak ==
    /\ fetch_comments.pc = "token"
    /\ fetch_comments' =
           [fetch_comments EXCEPT !.pc = "while",
                !.next_page_token = fetch_comments.response.nextPageToken]
    /\ UNCHANGED <<estimator, search_youtube_channels, fetch_video_statistics>>

\* Lines 390-394: next_page_token = response.get('nextPageToken'); without
\* one the loop breaks and the function returns comments.
FetchCommentsToken ==
    /\ fetch_comments.pc = "token"
    /\ LET t == fetch_comments.response.nextPageToken
       IN  IF t = NoneToken
           THEN fetch_comments' =
                    [fetch_comments EXCEPT !.pc = "returned", !.next_page_token = t,
                                           !.ret = fetch_comments.comments]
           ELSE fetch_comments' = [fetch_comments EXCEPT !.pc = "while", !.next_page_token = t]
    /\ UNCHANGED <<estimator, search_youtube_channels, fetch_video_statistics>>

\* No call of the estimator is made.
NoEstimatorCall == Start({}, {<<>>}, {0}, {""})

InitComments ==
    /\ NoEstimatorCall
    /\ StartComments
    /\ search_youtube_channels = IdleChannels
    /\ fetch_video_statistics = IdleVideos

NextComments ==
    \/ FetchCommentsWhile
    \/ FetchCommentsExecute
    \/ FetchCommentsHttpError
    \/ FetchCommentsFor
    \/ FetchCommentsToken

\* One call of _fetch_comments against an API that answers as it likes.
SpecComments == InitComments /\ [][NextComments]_vars

\* The same call, given that the interpreter keeps running the function and
\* every request is answered.
SpecCommentsFair == SpecComments /\ WF_vars(NextComments)

\* -------------------------------------------------- _search_youtube_channels

\* Most videos in the search response of the model.
MaxItems == 3

\* The channels the found videos belong to.
Channels == {"a", "b"}

\* viewCount of a video, as videos().list reports it.
VideoViews == {10, 99}

\* subscriberCount of a channel, as channels().list reports it; 0 is what
\* line 470 takes when the field is missing.
SubscriberCounts == {0, 2000, 5000}

\* max_results and min_subscribers as callers pass them.
ChannelMaxResults == {-1, 0, 1, 2}
MinSubscribers == {1000}

\* Line 443: channel_id in channel_videos.
InChannelVideos(cv, c) == \E j \in 1..Len(cv) : cv[j].channelId = c

\* Lines 474-485: the entry kept for a channel.
ChannelEntry(c, subs, best) ==
    [k |-> "channel", channelId |-> c, subscriberCount |-> subs, bestVideoViews |-> best]

\* s with x put behind the last element whose key is at least x's: one step
\* of a stable sort in descending order of the field key.
RECURSIVE InsertDesc(_, _, _)
InsertDesc(s, x, key) ==
    IF s = <<>> THEN <<x>>
    ELSE IF Head(s)[key] >= x[key] THEN <<Head(s)>> \o InsertDesc(Tail(s), x, key)
    ELSE <<x>> \o s

\* list.sort(key=lambda x: x[key], reverse=True): stable, descending.
RECURSIVE SortDesc(_, _)
SortDesc(s, key) ==
    IF s = <<>> THEN <<>>
    ELSE InsertDesc(SortDesc(SubSeq(s, 1, Len(s) - 1), key), s[Len(s)], key)

\* Line 489: channels.sort(key=lambda x: x['subscriberCount'], reverse=True).
SortChannels(s) == SortDesc(s, "subscriberCount")

\* Line 492: channels[:max_results], a Python slice.
SliceTo(s, n) ==
    IF n >= 0 THEN SubSeq(s, 1, Min(n, Len(s)))
    ELSE SubSeq(s, 1, IF Len(s) + n > 0 THEN Len(s) + n ELSE 0)

\* A call of _search_youtube_channels is about to run.
StartChannels ==
    search_youtube_channels \in
        {[IdleChannels EXCEPT !.pc = "search", !.max_results = n, !.min_subscribers = s,
                              !.looked = [c \in Channels |-> -1]] :
            n \in ChannelMaxResults, s \in MinSubscribers}

\* Lines 425-436: the search is executed; the response lists videos, each
\* with the channel it belongs to.
SearchExecute ==
    /\ search_youtube_channels.pc = "search"
    /\ \E items \in SeqsUpTo(Channels, MaxItems) :
           search_youtube_channels' =
               [search_youtube_channels EXCEPT !.pc = "for", !.items = items, !.idx = 1]
    /\ UNCHANGED <<estimator, fetch_comments, fetch_video_statistics>>

\* Lines 433, 451, 464, 494-495: an API call raises; the function returns a
\* list with one error entry.
SearchApiError ==
    /\ search_youtube_channels.pc \in {"search", "video", "channel"}
    /\ search_youtube_channels' =
           [search_youtube_channels EXCEPT !.pc = "returned", !.ret = <<ErrorEntry>>,
                                           !.raised = TRUE]
    /\ UNCHANGED <<estimator, fetch_comments, fetch_video_statistics>>

\* Mutant of SearchFor: a channel already kept is looked up again.
SearchForNoSkip ==
    /\ search_youtube_channels.pc = "for"
    /\ search_youtube_channels.idx <= Len(search_youtube_channels.items)
    /\ search_youtube_channels' =
           [search_youtube_channels EXCEPT !.pc = "video",
                !.channel_id = search_youtube_channels.items[search_youtube_channels.idx]]
    /\ UNCHANGED <<estimator, fetch_comments, fetch_video_statistics>>

\* Lines 438-444: the next item of the response; a channel already in
\* channel_videos is skipped.
SearchFor ==
    /\ search_youtube_channels.pc = "for"
    /\ search_youtube_channels.idx <= Len(search_youtube_channels.items)
    /\ LET sc == search_youtube_channels
           c == sc.items[sc.idx]
       IN  IF InChannelVideos(sc.channel_videos, c)
           THEN search_youtube_channels' = [sc EXCEPT !.idx = @ + 1, !.channel_id = c]
           ELSE search_youtube_channels' = [sc EXCEPT !.pc = "video", !.channel_id = c]
    /\ UNCHANGED <<estimator, fetch_comments, fetch_video_statistics>>

\* Lines 447-454: the video's statistics are asked for and there are none.
SearchVideoMissing ==
    /\ search_youtube_channels.pc = "video"
    /\ search_youtube_channels' = [search_youtube_channels EXCEPT !.pc = "for", !.idx = @ + 1]
    /\ UNCHANGED <<estimator, fetch_comments, fetch_video_statistics>>

\* Lines 447-457: the video's statistics give its view count.
SearchVideo ==
    /\ search_youtube_channels.pc = "video"
    /\ \E v \in VideoViews :
           search_youtube_channels' =
               [search_youtube_channels EXCEPT !.pc = "channel", !.view_count = v]
    /\ UNCHANGED <<estimator, fetch_comments, fetch_video_statistics>>

\* Lines 460-467: the channel's statistics are asked for and there are none.
SearchChannelMissing ==
    /\ search_youtube_channels.pc = "channel"
    /\ search_youtube_channels' = [search_youtube_channels EXCEPT !.pc = "for", !.idx = @ + 1]
    /\ UNCHANGED <<estimator, fetch_comments, fetch_video_statistics>>

\* Lines 460-485: the channel's statistics give its subscriber count; the
\* channel is kept if the count reaches min_subscribers.
SearchChannel ==
    /\ search_youtube_channels.pc = "channel"
    /\ \E subs \in SubscriberCounts :
           LET sc == search_youtube_channels
               c == sc.channel_id
           IN  IF subs >= sc.min_subscribers
               THEN search_youtube_channels' =
                        [sc EXCEPT !.pc = "for", !.idx = @ + 1,
                             !.channel_videos = Append(@, ChannelEntry(c, subs, sc.view_count)),
                             !.looked = [@ EXCEPT ![c] = subs]]
               ELSE search_youtube_channels' =
                        [sc EXCEPT !.pc = "for", !.idx = @ + 1,
                             !.looked = [@ EXCEPT ![c] = subs],
                             !.rejected = @ \cup {c}]
    /\ UNCHANGED <<estimator, fetch_comments, fetch_video_statistics>>

\* Lines 487-492: after the loop the kept entries are listed, sorted and cut.
SearchReturn ==
    /\ search_youtube_channels.pc = "for"
    /\ search_youtube_channels.idx > Len(search_youtube_channels.items)
    /\ LET sc == search_youtube_channels
       IN  search_youtube_channels' =
               [sc EXCEPT !.pc = "returned",
                          !.ret = SliceTo(SortChannels(sc.channel_videos), sc.max_results)]
    /\ UNCHANGED <<estimator, fetch_comments, fetch_video_statistics>>

InitChannels ==
    /\ NoEstimatorCall
    /\ fetch_comments = IdleComments
    /\ StartChannels
    /\ fetch_video_statistics = IdleVideos

NextChannels ==
    \/ SearchExecute
    \/ SearchApiError
    \/ SearchFor
    \/ SearchVideoMissing
    \/ SearchVideo
    \/ SearchChannelMissing
    \/ SearchChannel
    \/ SearchReturn

\* One call of _search_youtube_channels against an API that answers as it likes.
SpecChannels == InitChannels /\ [][NextChannels]_vars

\* --------------------------------------------------- _fetch_video_statistics

\* Most videos in the statistics response of the model.
MaxVideos == 3

\* Line 531: datetime.utcnow(), counted in days.
Now == 400

\* Line 531: timedelta(days=30 * months).
DaysPerMonth == 30

\* Lines 551, 575: minutes in an hour, seconds in a minute; durations are
\* counted in sixtieths of a minute.
Sixty == 60

Digits == <<"0", "1", "2", "3", "4", "5", "6", "7", "8", "9">>

\* c in s, for a string s held as the sequence of its characters.
Contains(s, c) == \E j \in 1..Len(s) : s[j] = c

Occurrences(s, c) == {j \in 1..Len(s) : s[j] = c}

FirstOf(S) == CHOOSE j \in S : \A k \in S : j <= k

LastOf(S) == CHOOSE j \in S : \A k \in S : k <= j

\* s.split(c)[0], s.split(c)[1] and s.split(c)[-1], for c in s.
SplitFirst(s, c) == SubSeq(s, 1, FirstOf(Occurrences(s, c)) - 1)

SplitSecond(s, c) ==
    LET rest == SubSeq(s, FirstOf(Occurrences(s, c)) + 1, Len(s))
    IN  IF Contains(rest, c) THEN SplitFirst(rest, c) ELSE rest

SplitLast(s, c) == SubSeq(s, LastOf(Occurrences(s, c)) + 1, Len(s))

IsDigit(c) == \E d \in 1..Len(Digits) : Digits[d] = c

DigitValue(c) == (CHOOSE d \in 1..Len(Digits) : Digits[d] = c) - 1

RECURSIVE DecimalValue(_)
DecimalValue(s) ==
    IF s = <<>> THEN 0
    ELSE 10 * DecimalValue(SubSeq(s, 1, Len(s) - 1)) + DigitValue(s[Len(s)])

\* int(s): ValueError unless s is a non-empty string of digits.
ParseInt(s) ==
    IF s # <<>> /\ \A j \in 1..Len(s) : IsDigit(s[j])
    THEN [err |-> FALSE, n |-> DecimalValue(s)]
    ELSE [err |-> TRUE, n |-> 0]

\* Lines 545-551: the hours of a duration string.
HoursOf(d) ==
    IF ~Contains(d, "H") THEN [err |-> FALSE, n |-> 0]
    ELSE LET hours_part == SplitFirst(d, "H")
         IN  IF Contains(hours_part, "T") THEN ParseInt(SplitSecond(hours_part, "T"))
             ELSE ParseInt(hours_part)

\* Lines 554-562: the minutes of a duration string.
MinutesOf(d) ==
    IF ~Contains(d, "M") THEN [err |-> FALSE, n |-> 0]
    ELSE LET minutes_part == SplitFirst(d, "M")
         IN  IF Contains(minutes_part, "H") THEN ParseInt(SplitLast(minutes_part, "H"))
             ELSE IF Contains(minutes_part, "T") THEN ParseInt(SplitLast(minutes_part, "T"))
             ELSE ParseInt(minutes_part)

\* Lines 565-575: the seconds of a duration string.
SecondsOf(d) ==
    IF ~Contains(d, "S") THEN [err |-> FALSE, n |-> 0]
    ELSE LET seconds_part == SplitFirst(d, "S")
         IN  IF Contains(seconds_part, "M") THEN ParseInt(SplitLast(seconds_part, "M"))
             ELSE IF Contains(seconds_part, "H") THEN ParseInt(SplitLast(seconds_part, "H"))
             ELSE IF Contains(seconds_part, "T") THEN ParseInt(SplitLast(seconds_part, "T"))
             ELSE ParseInt(seconds_part)

\* Lines 541-575: duration_minutes of a duration string, in sixtieths of a
\* minute, or the error one of the int() calls raises.
ParseDuration(d) ==
    LET h == HoursOf(d)
        mi == MinutesOf(d)
        s == SecondsOf(d)
    IN  IF h.err \/ mi.err \/ s.err THEN [err |-> TRUE, n |-> 0]
        ELSE [err |-> FALSE, n |-> h.n * Sixty * Sixty + mi.n * Sixty + s.n]

\* A video without a duration field.
NoDuration == <<>>

\* Line 541: the duration string of a video; 'PT0S' when the field is missing.
DurationStr(video) ==
    IF video.duration = NoDuration THEN <<"P", "T", "0", "S">> ELSE video.duration

\* Line 538: datetime.strptime(publishedAt, '%Y-%m-%dT%H:%M:%SZ'): the day of
\* a timestamp written in that format, ValueError for any other string.
Strptime(p) == IF p.fmt = "Z" THEN [err |-> FALSE, t |-> p.day] ELSE [err |-> TRUE, t |-> 0]

\* Line 531: cutoff_date = datetime.utcnow() - timedelta(days=30 * months).
CutoffDate(months) == Now - DaysPerMonth * months

\* Lines 536-575, 595: the processing of the video raises.
Raises(video) == Strptime(video.publishedAt).err \/ ParseDuration(DurationStr(video)).err

\* Line 578: publish_date < cutoff_date or duration_minutes < min_duration_minutes.
FilteredOut(video, cutoff_date, min_duration_minutes) ==
    \/ Strptime(video.publishedAt).t < cutoff_date
    \/ ParseDuration(DurationStr(video)).n < min_duration_minutes * Sixty

\* Lines 582-590: the entry appended for a video.
VideoEntry(video) ==
    [videoId |-> video.id,
     durationMinutes |-> ParseDuration(DurationStr(video)).n,
     publishedAt |-> video.publishedAt]

\* Timestamps of the videos: long ago, 180 days ago, yesterday, and one with
\* fractional seconds, which the format of line 538 does not accept.
PublishedAt ==
    {[day |-> 100, fmt |-> "Z"], [day |-> Now - 180, fmt |-> "Z"],
     [day |-> Now - 1, fmt |-> "Z"], [day |-> Now - 1, fmt |-> ".000Z"]}

\* Durations of the videos: PT3M, PT2M59S, PT1H2M3S, P1DT1M (the day is not
\* counted), P1M (int('P1') raises), and no duration field.
Durations ==
    {<<"P", "T", "3", "M">>,
     <<"P", "T", "2", "M", "5", "9", "S">>,
     <<"P", "T", "1", "H", "2", "M", "3", "S">>,
     <<"P", "1", "D", "T", "1", "M">>,
     <<"P", "1", "M">>,
     NoDuration}

\* The videos of the model: three that pass both filters, and one for each
\* way of being filtered out or of raising.
VideoKinds ==
    {[publishedAt |-> p, duration |-> d] :
        p \in {[day |-> Now - 1, fmt |-> "Z"]}, d \in Durations}
    \cup {[publishedAt |-> p, duration |-> <<"P", "T", "3", "M">>] : p \in PublishedAt}

\* max_results, months and min_duration_minutes as callers pass them.
VideoMaxResults == {0, 1, 2}
Months == {1, 6}
MinDurationMinutes == {3}

\* A call of _fetch_video_statistics is about to run.
StartVideos ==
    fetch_video_statistics \in
        {[IdleVideos EXCEPT !.pc = "fetch", !.max_results = n, !.months = mo,
                            !.min_duration_minutes = d] :
            n \in VideoMaxResults, mo \in Months, d \in MinDurationMinutes}

\* Lines 500-534: the three requests are answered; the statistics response
\* lists the videos, the j-th with id j.
VideoFetch ==
    /\ fetch_video_statistics.pc = "fetch"
    /\ \E kinds \in SeqsUpTo(VideoKinds, MaxVideos) :
           fetch_video_statistics' =
               [fetch_video_statistics EXCEPT !.pc = "for", !.idx = 1,
                    !.cutoff_date = CutoffDate(fetch_video_statistics.months),
                    !.items = [j \in 1..Len(kinds) |->
                                  [id |-> j, publishedAt |-> kinds[j].publishedAt,
                                   duration |-> kinds[j].duration]]]
    /\ UNCHANGED <<estimator, fetch_comments, search_youtube_channels>>

\* Lines 506-507: the channel is not found; ValueError leaves the function.
VideoChannelNotFound ==
    /\ fetch_video_statistics.pc = "fetch"
    /\ fetch_video_statistics' =
           [fetch_video_statistics EXCEPT !.pc = "raised", !.exc = "ValueError"]
    /\ UNCHANGED <<estimator, fetch_comments, search_youtube_channels>>

\* Lines 504, 517, 527, 600-601: a request raises HttpError, raised again as
\* Exception.
VideoHttpError ==
    /\ fetch_video_statistics.pc = "fetch"
    /\ fetch_video_statistics' =
           [fetch_video_statistics EXCEPT !.pc = "raised", !.exc = "Exception"]
    /\ UNCHANGED <<estimator, fetch_comments, search_youtube_channels>>

\* The video the for loop is at.
CurrentVideo == fetch_video_statistics.items[fetch_video_statistics.idx]

InLoop ==
    /\ fetch_video_statistics.pc = "for"
    /\ fetch_video_statistics.idx <= Len(fetch_video_statistics.items)

\* Lines 536-575, 595-597: the video's processing raises; except: continue.
VideoRaises ==
    /\ InLoop
    /\ Raises(CurrentVideo)
    /\ fetch_video_statistics' =
           [fetch_video_statistics EXCEPT !.idx = @ + 1, !.errors = Min(@ + 1, MaxVideos + 1)]
    /\ UNCHANGED <<estimator, fetch_comments, search_youtube_channels>>

\* Lines 578-579: the video is too old or too short; continue.
VideoFiltered ==
    /\ InLoop
    /\ ~Raises(CurrentVideo)
    /\ FilteredOut(CurrentVideo, fetch_video_statistics.cutoff_date,
                   fetch_video_statistics.min_duration_minutes)
    /\ fetch_video_statistics' = [fetch_video_statistics EXCEPT !.idx = @ + 1]
    /\ UNCHANGED <<estimator, fetch_comments, search_youtube_channels>>

\* Lines 581-594, 599: the video is appended; with max_results entries or
\* more in the list the loop breaks and the function returns video_stats.
VideoAccepted ==
    /\ InLoop
    /\ ~Raises(CurrentVideo)
    /\ ~FilteredOut(CurrentVideo, fetch_video_statistics.cutoff_date,
                    fetch_video_statistics.min_duration_minutes)
    /\ LET fv == fetch_video_statistics
           stats == Append(fv.video_stats, VideoEntry(CurrentVideo))
       IN  IF Len(stats) >= fv.max_results
           THEN fetch_video_statistics' =
                    [fv EXCEPT !.pc = "returned", !.video_stats = stats, !.ret = stats]
           ELSE fetch_video_statistics' = [fv EXCEPT !.idx = @ + 1, !.video_stats = stats]
    /\ UNCHANGED <<estimator, fetch_comments, search_youtube_channels>>

\* Lines 535, 599: the response is exhausted; return video_stats.
VideoReturn ==
    /\ fetch_video_statistics.pc = "for"
    /\ fetch_video_statistics.idx > Len(fetch_video_statistics.items)
    /\ fetch_video_statistics' =
           [fetch_video_statistics EXCEPT !.pc = "returned",
                !.ret = fetch_video_statistics.video_stats]
    /\ UNCHANGED <<estimator, fetch_comments, search_youtube_channels>>

InitVideos ==
    /\ NoEstimatorCall
    /\ fetch_comments = IdleComments
    /\ search_youtube_channels = IdleChannels
    /\ StartVideos

NextVideos ==
    \/ VideoFetch
    \/ VideoChannelNotFound
    \/ VideoHttpError
    \/ VideoRaises
    \/ VideoFiltered
    \/ VideoAccepted
    \/ VideoReturn

\* One call of _fetch_video_statistics against an API that answers as it likes.
SpecVideos == InitVideos /\ [][NextVideos]_vars

\* -------------------------------------------------------------- the claims

\* A series the contract accepts: non-empty, every element > 0.
ValidSeries(hv) == Len(hv) > 0 /\ \A j \in 1..Len(hv) : hv[j] > 0

\* A series with at least two different values (variance > 0).
HasSpread(hv) == \E j, k \in 1..Len(hv) : hv[j] # hv[k]

Active(i) == pc[i] # "idle"

\* C1: a call whose series is empty or holds an element <= 0, whatever the
\* confidence level and the interval type, never gets past the two checks: it
\* can always take its next step until it has raised ValueError, and it
\* returns nothing.
C1_InvalidSeriesRaises ==
    \A i \in Inv :
        (Active(i) /\ ~ValidSeries(historical_views[i])) =>
            /\ pc[i] \in {"check_empty", "to_array", "check_positive", "raised"}
            /\ pc[i] = "raised" => exc[i] = "ValueError"
            /\ pc[i] # "raised" => ENABLED Step(i)
            /\ ret[i] = NoReturn

\* C1 witness: a non-empty series whose last element is <= 0 has been rejected.
C1_Witness ==
    /\ pc[1] = "raised"
    /\ exc[1] = "ValueError"
    /\ Len(historical_views[1]) = 2
    /\ historical_views[1][1] > 0
    /\ historical_views[1][2] = 0

\* C2: a call that has failed has failed with the input error, before any
\* computation: it has made no fit and no quantile evaluation, and it has
\* returned nothing, not even one bound.
C2_ErrorBeforeComputation ==
    \A i \in Inv :
        pc[i] = "raised" =>
            /\ exc[i] = "ValueError"
            /\ fit_calls[i] = 0
            /\ ppf_calls[i] = <<>>
            /\ ret[i] = NoReturn
            /\ lower_q[FrameOf(i)] = NaN

\* C2 witness: a call rejected by the second check, after the array was made.
C2_Witness ==
    /\ pc[1] = "raised"
    /\ views[FrameOf(1)] # <<>>
    /\ fit_calls[1] = 0

\* A call of the contract's domain that has returned.
ReturnedValid(i) ==
    /\ pc[i] = "returned"
    /\ ValidSeries(historical_views[i])
    /\ interval_type[i] \in IntervalTypes

\* C3 as stated: for every non-empty series of positive numbers and every
\* interval type (whatever the confidence level), the call returns a pair, and
\* lower <= upper when both bounds are finite.
C3_Original ==
    \A i \in Inv :
        ReturnedValid(i) =>
            /\ ret[i].k = "pair"
            /\ (IsFinite(ret[i].lo) /\ IsFinite(ret[i].hi)) => Leq(ret[i].lo, ret[i].hi)

\* C3 amended: the same for every confidence level >= 0.
C3_OrderedBounds ==
    \A i \in Inv :
        (ReturnedValid(i) /\ confidence_level[i] >= 0) =>
            /\ ret[i].k = "pair"
            /\ (IsFinite(ret[i].lo) /\ IsFinite(ret[i].hi)) => Leq(ret[i].lo, ret[i].hi)

\* C3 witness: a two-sided interval with two finite bounds, lower < upper.
C3_Witness ==
    /\ ReturnedValid(1)
    /\ confidence_level[1] = 900
    /\ HasSpread(historical_views[1])
    /\ IsFinite(ret[1].lo) /\ IsFinite(ret[1].hi)
    /\ Leq(ret[1].lo, ret[1].hi) /\ ~Leq(ret[1].hi, ret[1].lo)

\* C4: for every valid series and every confidence level, interval type
\* "lower" returns +inf as upper bound and "upper" returns -inf as lower bound.
C4_OneSidedInfinite ==
    \A i \in Inv :
        ReturnedValid(i) =>
            /\ interval_type[i] = "lower" => (ret[i].k = "pair" /\ ret[i].hi = PosInf)
            /\ interval_type[i] = "upper" => (ret[i].k = "pair" /\ ret[i].lo = NegInf)

\* C4 witness: a "lower" call has returned a finite lower bound and +inf.
C4_Witness ==
    /\ ReturnedValid(1)
    /\ interval_type[1] = "lower"
    /\ IsFinite(ret[1].lo)
    /\ ret[1].hi = PosInf

\* The quantile at probability p of the distribution fitted to invocation i's series.
FittedQuantile(i, p) ==
    LET r == LognormFit(historical_views[i], 0, lib)
    IN  LognormPpf(p, r.shape, r.loc, r.scale)

\* C5: the quantile function is asked for exactly the prescribed probabilities
\* ("lower": 1 - c; "upper": c; "two-sided": (1 - c)/2 and 1 - (1 - c)/2, which
\* differ by exactly c), and every finite bound returned is the fitted
\* distribution's quantile at that probability.
C5_PrescribedQuantiles ==
    \A i \in Inv :
        ReturnedValid(i) =>
            LET c == confidence_level[i]
                q == ppf_calls[i]
            IN  /\ interval_type[i] = "lower" =>
                    /\ q = <<ONE - c>>
                    /\ IsFinite(ret[i].lo) => ret[i].lo = FittedQuantile(i, ONE - c)
                /\ interval_type[i] = "upper" =>
                    /\ q = <<c>>
                    /\ IsFinite(ret[i].hi) => ret[i].hi = FittedQuantile(i, c)
                /\ interval_type[i] = "two-sided" =>
                    /\ Len(q) = 2
                    /\ 2 * q[1] = ONE - c
                    /\ q[2] = ONE - q[1]
                    /\ q[2] - q[1] = c
                    /\ IsFinite(ret[i].lo) => ret[i].lo = FittedQuantile(i, q[1])
                    /\ IsFinite(ret[i].hi) => ret[i].hi = FittedQuantile(i, q[2])

\* C5 witness: a two-sided call at confidence 0.9 has returned two finite
\* bounds, after asking for the quantiles at 0.05 and 0.95.
C5_Witness ==
    /\ ReturnedValid(1)
    /\ interval_type[1] = "two-sided"
    /\ ppf_calls[1] = <<50, 950>>
    /\ IsFinite(ret[1].lo) /\ IsFinite(ret[1].hi)
    /\ ret[1].lo # ret[1].hi

\* C7: a call with a valid series and one of the three interval types is never
\* rejected, whatever the confidence level: it never raises, the fit does not
\* fail, every other position has a next step, a probability computed from the
\* level is handed to the quantile function, and a pair is returned.
C7_LevelNotValidated ==
    \A i \in Inv :
        (Active(i) /\ ValidSeries(historical_views[i]) /\ interval_type[i] \in IntervalTypes) =>
            /\ pc[i] # "raised"
            /\ exc[i] = "none"
            /\ pc[i] = "fit" => ~LognormFit(views[FrameOf(i)], 0, lib).err
            /\ pc[i] \notin {"fit", "returned"} => ENABLED Step(i)
            /\ pc[i] = "returned" => (ret[i].k = "pair" /\ Len(ppf_calls[i]) >= 1)

\* C7 witness: a call with confidence level 1.5 has returned a pair with a NaN bound.
C7_Witness ==
    /\ ReturnedValid(1)
    /\ confidence_level[1] > ONE
    /\ ret[1].k = "pair"
    /\ IsNaN(ret[1].lo)

\* The two-sided interval at level c2 is at least as wide as the one at c1.
Widens(r1, r2) == Leq(r2.lo, r1.lo) /\ Leq(r1.hi, r2.hi)

\* The pair the function returns for invocation i's series at level c, two-sided.
TwoSidedAt(i, c) == PredictNextVideoViews(historical_views[i], c, "two-sided", lib).ret

\* C6 as stated: for a series with variance > 0 and interval type "two-sided",
\* the interval returned at a confidence level is at least as wide as the one
\* at any smaller confidence level.
C6_Original ==
    \A i \in Inv :
        (ReturnedValid(i) /\ interval_type[i] = "two-sided" /\ HasSpread(historical_views[i])) =>
            \A c1 \in ConfLevels :
                c1 < confidence_level[i] => Widens(TwoSidedAt(i, c1), ret[i])

\* C6 amended: the same for two confidence levels within [-1, 1].
C6_WidensWithLevel ==
    \A i \in Inv :
        (ReturnedValid(i) /\ interval_type[i] = "two-sided" /\ HasSpread(historical_views[i])) =>
            \A c1 \in ConfLevels :
                (0 - ONE <= c1 /\ c1 < confidence_level[i] /\ confidence_level[i] <= ONE) =>
                    Widens(TwoSidedAt(i, c1), ret[i])

\* C6 witness: the interval at 0.99 is strictly wider, on both sides, than the
\* one at 0.80 for the same series.
C6_Witness ==
    /\ ReturnedValid(1)
    /\ interval_type[1] = "two-sided"
    /\ HasSpread(historical_views[1])
    /\ confidence_level[1] = 990
    /\ Widens(TwoSidedAt(1, 800), ret[1])
    /\ ~Widens(ret[1], TwoSidedAt(1, 800))
    /\ ret[1].lo # TwoSidedAt(1, 800).lo
    /\ ret[1].hi # TwoSidedAt(1, 800).hi

\* C8: a call that has ended with the inputs of a call the caller noted
\* earlier, whatever was called in between, has the noted outcome: the same
\* return value, or the same error.
C8_Idempotent ==
    \A i \in Inv :
        ( /\ Done(i)
          /\ mem.k = "call"
          /\ mem.hv = historical_views[i]
          /\ mem.cl = confidence_level[i]
          /\ mem.it = interval_type[i] ) =>
            (ret[i] = mem.ret /\ exc[i] = mem.exc)

\* C8 witness: the same inputs have returned the same finite pair again, with
\* another call made in between.
C8_Witness ==
    /\ ReturnedValid(1)
    /\ mem.k = "call"
    /\ mem.gap
    /\ mem.hv = historical_views[1]
    /\ mem.cl = confidence_level[1]
    /\ mem.it = interval_type[1]
    /\ HasSpread(mem.hv)
    /\ mem.it = "two-sided"
    /\ IsFinite(ret[1].lo)
    /\ ret[1] = mem.ret

\* A step of the function leaves alone a frame whose invocation it is not.
OwnFrameOnly ==
    \A j \in Inv :
        pc'[j] = pc[j] =>
            /\ views'[j] = views[j]
            /\ shape'[j] = shape[j]
            /\ loc'[j] = loc[j]
            /\ scale'[j] = scale[j]
            /\ alpha'[j] = alpha[j]
            /\ lower_q'[j] = lower_q[j]
            /\ ret'[j] = ret[j]
            /\ exc'[j] = exc[j]

\* Invocation i has ended as it ends when run alone.
AsAlone(i) ==
    Outcome(ret[i], exc[i]) =
        PredictNextVideoViews(historical_views[i], confidence_level[i], interval_type[i], lib)

\* C9: in every interleaving of two invocations, each one ends with the
\* outcome it has when run alone, no step writes the locals or the result of
\* the other invocation, and no step changes a caller's input series.
C9_ConcurrentSafe ==
    /\ [](\A i \in Inv : Done(i) => AsAlone(i))
    /\ [][OwnFrameOnly /\ historical_views' = historical_views]_vars

\* C9 witness: both invocations have ended, with different series, after
\* the second one started while the first one was between its fit and its return.
C9_Witness ==
    /\ pc[1] = "returned" /\ pc[2] = "returned"
    /\ HasSpread(historical_views[1])
    /\ ValidSeries(historical_views[2])
    /\ historical_views[1] # historical_views[2]
    /\ interval_type[1] = "two-sided"
    /\ AsAlone(1) /\ AsAlone(2)

\* Invocation i has returned from a "lower" call on a valid series that is
\* not constant.
LowerReturned(i) ==
    /\ ReturnedValid(i)
    /\ HasSpread(historical_views[i])
    /\ interval_type[i] = "lower"

\* The pair (L, +inf) with L finite, positive and strictly below the fitted
\* median, which is the fitted scale.
BelowMedian(i) ==
    /\ ret[i].k = "pair"
    /\ ret[i].hi = PosInf
    /\ ret[i].lo.k = "exp"
    /\ scale[FrameOf(i)].k = "exp"
    /\ ret[i].lo.v < scale[FrameOf(i)].v

\* C11 as stated: in mode "lower", with any confidence level above 0.5 and a
\* series of positive values that are not all equal, the call returns
\* (L, +inf) where L is finite, positive and strictly less than the fitted median.
C11_Original ==
    \A i \in Inv :
        (LowerReturned(i) /\ confidence_level[i] > ONE \div 2) => BelowMedian(i)

\* C11: in mode "lower", with a confidence level above 0.5 and below 1 and a
\* series of positive values that are not all equal, the call returns
\* (L, +inf) where L is finite, positive and strictly less than the fitted median.
C11_LowerBelowMedian ==
    \A i \in Inv :
        ( /\ Active(i)
          /\ ValidSeries(historical_views[i])
          /\ HasSpread(historical_views[i])
          /\ interval_type[i] = "lower"
          /\ confidence_level[i] > ONE \div 2
          /\ confidence_level[i] < ONE )
        => /\ pc[i] # "raised"
           /\ pc[i] = "returned" => BelowMedian(i)

\* C11 witness: a "lower" call at level 0.90 on a series with spread has
\* returned a positive lower bound below the fitted scale.
C11_Witness ==
    /\ LowerReturned(1)
    /\ confidence_level[1] = 900
    /\ Len(historical_views[1]) = MaxLen
    /\ BelowMedian(1)

\* C12: with a valid series, an interval type other than "two-sided", "lower"
\* and "upper" raises no error and returns no pair: the call performs the
\* fit, evaluates no quantile and returns None.
C12_UnknownTypeReturnsNone ==
    \A i \in Inv :
        ( /\ Active(i)
          /\ ValidSeries(historical_views[i])
          /\ interval_type[i] \notin IntervalTypes )
        => /\ pc[i] # "raised"
           /\ exc[i] = "none"
           /\ pc[i] = "returned" =>
                 /\ ret[i] = ReturnNone
                 /\ fit_calls[i] = 1
                 /\ ppf_calls[i] = <<>>

\* C12 witness: a call with an unknown interval type has returned None after
\* one fit.
C12_Witness ==
    /\ pc[1] = "returned"
    /\ ValidSeries(historical_views[1])
    /\ interval_type[1] \notin IntervalTypes
    /\ ret[1] = ReturnNone
    /\ fit_calls[1] = 1

\* _fetch_comments has ended.
CommentsDone == fetch_comments.pc \in {"returned", "raised"}

\* C13: in a call of _fetch_comments with max_results >= 0 the list never
\* holds more than max_results comments, each request asks for
\* min(100, max_results - len(comments)) items, at least one, and what is
\* returned is that list; with max_results <= 0 no request is made and the
\* empty list is returned.
C13_AtMostMaxResults ==
    LET fc == fetch_comments
    IN  fc.pc # "idle" =>
            /\ fc.max_results >= 0 => Len(fc.comments) <= fc.max_results
            /\ fc.pc = "execute" =>
                  /\ fc.request.maxResults = Min(PageLimit, fc.max_results - Len(fc.comments))
                  /\ fc.request.maxResults >= 1
            /\ fc.pc = "for" => Len(fc.response.items) <= fc.request.maxResults
            /\ fc.pc = "returned" => fc.ret = fc.comments
            /\ fc.max_results <= 0 =>
                  /\ fc.pc \in {"while", "returned"}
                  /\ fc.request = NoRequest
                  /\ fc.pc = "returned" => fc.ret = <<>>

\* C13 witness: a call that asked for more than one page has returned
\* exactly max_results comments, the last request asking for the remainder.
C13_Witness ==
    /\ fetch_comments.pc = "returned"
    /\ fetch_comments.max_results > PageLimit
    /\ Len(fetch_comments.ret) = fetch_comments.max_results
    /\ fetch_comments.request.maxResults < PageLimit

\* The page just processed carries a nextPageToken and added no comment.
Barren ==
    /\ fetch_comments.pc = "token"
    /\ fetch_comments.response.nextPageToken # NoneToken
    /\ Accepted(fetch_comments.response.items) = <<>>

\* The loop does not go on once max_results comments are collected or the
\* last response carried no nextPageToken, and every request after the first
\* carries the nextPageToken of the response before it.
StopsAndChains ==
    LET fc == fetch_comments
    IN  /\ fc.pc \in {"execute", "for", "token"} => fc.max_results > 0
        /\ fc.pc = "execute" =>
              /\ Len(fc.comments) < fc.max_results
              /\ fc.request.pageToken = fc.response.nextPageToken
              /\ fc.response = NoResponse \/ fc.response.nextPageToken # NoneToken
        /\ fc.pc = "while" => (fc.response = NoResponse \/ fc.response.nextPageToken # NoneToken)

\* C14 as stated: _fetch_comments eventually terminates for every sequence of
\* API responses.
C14_Original == <>CommentsDone

\* C14: the pagination loop stops as soon as max_results comments are
\* collected or a response carries no nextPageToken, every request after the
\* first uses the nextPageToken of the response immediately before it, and
\* the call terminates unless the API answers again and again with pages that
\* carry a nextPageToken and add no comment.
C14_TerminatesUnlessBarren ==
    /\ []StopsAndChains
    /\ (<>CommentsDone) \/ ([]<>Barren)

\* C14 witness: the call has returned after a request that carried the
\* token of the page before it, with max_results comments collected.
C14_Witness ==
    /\ fetch_comments.pc = "returned"
    /\ fetch_comments.request.pageToken \in Tokens
    /\ fetch_comments.response.nextPageToken \in Tokens
    /\ Len(fetch_comments.ret) = fetch_comments.max_results

\* No two entries of the list have the same channelId.
DistinctChannels(s) == \A j, k \in 1..Len(s) : s[j].channelId = s[k].channelId => j = k

\* Every entry is a channel whose subscriberCount reaches n.
AllReach(s, n) == \A j \in 1..Len(s) : s[j].k = "channel" /\ s[j].subscriberCount >= n

\* C15 as stated: the returned list has at most max_results entries, no two
\* with the same channelId, each with subscriberCount >= min_subscribers, and
\* none for a channel that a lookup found below the threshold.
C15_Original ==
    LET sc == search_youtube_channels
    IN  sc.pc = "returned" =>
            /\ Len(sc.ret) <= sc.max_results
            /\ DistinctChannels(sc.ret)
            /\ AllReach(sc.ret, sc.min_subscribers)
            /\ \A j \in 1..Len(sc.ret) : sc.ret[j].channelId \notin sc.rejected

\* C15: when no API call raises, the returned list has at most max_results
\* entries if max_results >= 0 and never more than were kept, no two entries
\* have the same channelId, and every entry has subscriberCount >=
\* min_subscribers, the count reported by the latest lookup of its channel (so
\* a channel once found below the threshold is in the list only if a later
\* lookup reported a count that reaches it); when an API call raises, the
\* list is the single error entry.
C15_ChannelsFiltered ==
    LET sc == search_youtube_channels
    IN  /\ sc.pc # "idle" => DistinctChannels(sc.channel_videos)
        /\ sc.pc = "returned" =>
              IF sc.raised THEN sc.ret = <<ErrorEntry>>
              ELSE /\ sc.max_results >= 0 => Len(sc.ret) <= sc.max_results
                   /\ Len(sc.ret) <= Len(sc.channel_videos)
                   /\ DistinctChannels(sc.ret)
                   /\ AllReach(sc.ret, sc.min_subscribers)
                   /\ \A j \in 1..Len(sc.ret) :
                          sc.ret[j].subscriberCount = sc.looked[sc.ret[j].channelId]

\* C15 witness: a list of one entry has been returned, cut from two kept
\* channels, one of which was found below the threshold before it was kept.
C15_Witness ==
    /\ search_youtube_channels.pc = "returned"
    /\ ~search_youtube_channels.raised
    /\ search_youtube_channels.max_results = 1
    /\ Len(search_youtube_channels.ret) = 1
    /\ Len(search_youtube_channels.channel_videos) = 2
    /\ search_youtube_channels.rejected # {}

\* C16: the list returned by _search_youtube_channels is sorted by best video
\* views: of two consecutive entries the earlier has bestVideoViews >= the
\* later's.
C16_SortedByBestVideoViews ==
    LET sc == search_youtube_channels
    IN  (sc.pc = "returned" /\ ~sc.raised) =>
            \A j \in 1..(Len(sc.ret) - 1) :
                sc.ret[j].bestVideoViews >= sc.ret[j + 1].bestVideoViews

\* The video passes both filters of line 578.
Qualifies(video) ==
    /\ ~Raises(video)
    /\ ~FilteredOut(video, fetch_video_statistics.cutoff_date,
                    fetch_video_statistics.min_duration_minutes)

\* The videos looked at so far that pass both filters, as entries, in the
\* order of the response.
QualifiedSoFar ==
    LET fv == fetch_video_statistics
        done == IF fv.pc = "returned" THEN Min(fv.idx, Len(fv.items)) ELSE fv.idx - 1
        seen == SubSeq(fv.items, 1, done)
        good == SelectSeq(seen, Qualifies)
    IN  [j \in 1..Len(good) |-> VideoEntry(good[j])]

\* Every entry is a video of the response published on or after the cutoff
\* with a parsed duration of at least min_duration_minutes, and the entries
\* are in the order of the response.
EntriesQualify(s) ==
    LET fv == fetch_video_statistics
    IN  /\ \A j \in 1..Len(s) :
              /\ s[j].videoId \in 1..Len(fv.items)
              /\ Qualifies(fv.items[s[j].videoId])
              /\ s[j] = VideoEntry(fv.items[s[j].videoId])
              /\ s[j].publishedAt.day >= Now - DaysPerMonth * fv.months
              /\ s[j].durationMinutes >= fv.min_duration_minutes * Sixty
        /\ \A j \in 1..(Len(s) - 1) : s[j].videoId < s[j + 1].videoId

\* C17: _fetch_video_statistics returns at most max_results entries, each a
\* video published on or after the cutoff with a parsed duration of at least
\* min_duration_minutes, in the order of the API response; a video whose
\* processing raises is skipped, the call goes on and the videos already
\* accepted stay in the list.
C17_AtMostMaxResultsFiltered ==
    LET fv == fetch_video_statistics
    IN  /\ fv.pc = "returned" =>
              /\ Len(fv.ret) <= fv.max_results
              /\ EntriesQualify(fv.ret)
        /\ fv.pc \in {"for", "returned"} =>
              /\ fv.exc = "none"
              /\ fv.video_stats = QualifiedSoFar

\* What holds of the code: the list is the qualifying videos in response
\* order, cut after max_results of them but never before the first.
VideosFilteredUpToOne ==
    LET fv == fetch_video_statistics
    IN  /\ fv.pc = "returned" =>
              /\ Len(fv.ret) <= (IF fv.max_results >= 1 THEN fv.max_results ELSE 1)
              /\ EntriesQualify(fv.ret)
        /\ fv.pc \in {"for", "returned"} =>
              /\ fv.exc = "none"
              /\ fv.video_stats = QualifiedSoFar

====
